---- MODULE Spec2Model ----
(***************************************************************************)
(* A model of the agent round-table: the response parser and the backend   *)
(* adapter with its rate limiter (LlmService), the SQLite store            *)
(* (DatabaseService), and the turn engine (AgentService).                  *)
(*                                                                         *)
(* Text is a sequence of tokens.  A token is a section header in one       *)
(* letter case, a white-space character, a name prefix ("User A:") in one  *)
(* letter case, or an ordinary word.  The regular expressions of the       *)
(* parser only ever test for these token classes.                          *)
(***************************************************************************)
EXTENDS Integers, Sequences, FiniteSets, TLC

(***************************************************************************)
(* Bounds of the model.                                                    *)
(***************************************************************************)
MaxTextLen == 4        \* tokens in a raw text handed to the parser on its own
MaxAgents == 2         \* agents of a conversation
MaxConversations == 1  \* conversations ever created, where every operation is run
MaxStored == 2         \* conversations ever created, where they are only created and loaded
MaxTurns == 1          \* numTurns of one runConversation
MaxCalls == 2          \* generateAgentResponse calls ever made
MaxRateLimit == 2      \* the configured RATE_LIMIT
MaxTicks == 2          \* the clock stops at MaxTicks * ClockStep
MaxDisturbances == 1   \* store writes that fail with an I/O error, and times the clock is set back
MaxRows == 2           \* rows of each table when the store is driven on its own
MaxAdapterCalls == 3   \* calls made when the adapter is driven on its own
MaxIndex == 53         \* agent indices of the naming run

(***************************************************************************)
(* Token classes.                                                          *)
(***************************************************************************)
\* /PUBLIC RESPONSE:/i
PublicHeaders == {"PUBLIC RESPONSE:", "public response:"}

\* /PRIVATE THOUGHTS:/i
PrivateHeaders == {"PRIVATE THOUGHTS:", "private thoughts:"}

\* \s, and what String.prototype.trim removes
WhiteSpace == {"\n"}

\* every text that "User [A-Z]+:" matches when letter case is ignored
NamePrefixesAnyCase == {"User A:", "user a:"}

\* the texts that "User [A-Z]+:" matches as written
NamePrefixesExact == {"User A:"}

Words == {"x"}

Tokens == PublicHeaders \cup PrivateHeaders \cup WhiteSpace \cup NamePrefixesAnyCase \cup Words

\* The two versions of the adapter in the repository.
LlmVariants == {"openai", "multi"}

VARIABLES
  llmVariant,      \* which version of llm-service is built
  responseText,    \* parser run: the raw text handed to parseAgentResponse
  parsed,          \* parser run: its result, once it has run
  agentIndex,      \* naming run: the loop index i of createConversation
  named,           \* naming run: the name given to agent i, once it is given
  clock,           \* what Date.now() returns
  modelProvider,   \* LlmService.modelProvider
  rateLimit,       \* LlmService.rateLimit
  requestCount,    \* LlmService.requestCount
  lastResetTime,   \* LlmService.lastResetTime
  foreignKeys,     \* the connection's foreign_keys setting
  conversations,   \* table conversations, in rowid order
  agents,          \* table agents, in rowid order
  messages,        \* table messages, in rowid order
  nextId,          \* uuidv4(): the next fresh id
  conv,            \* the Conversation object the caller holds
  run,             \* runConversation: its position and its currentConversation copy
  created,         \* what the last createConversation returned
  lastOp,          \* the last operation called and how it ended
  lastCall,        \* the last LlmService.generateAgentResponse call
  issuedInWindow,  \* backend requests dispatched since lastResetTime was last set
  calls,           \* generateAgentResponse calls made so far
  disturbances     \* store writes that failed and clock set-backs so far

(***************************************************************************)
(* String helpers.                                                         *)
(***************************************************************************)
\* the first index >= from whose token is in S, or Len(s)+1
FirstIndexFrom(s, S, from) ==
  IF \E i \in from..Len(s) : s[i] \in S
  THEN CHOOSE i \in from..Len(s) : s[i] \in S /\ \A j \in from..(i-1) : s[j] \notin S
  ELSE Len(s) + 1

\* the first index >= from whose token is not white space, or Len(s)+1: a greedy \s*
SkipSpace(s, from) ==
  IF \E i \in from..Len(s) : s[i] \notin WhiteSpace
  THEN CHOOSE i \in from..Len(s) : s[i] \notin WhiteSpace /\ \A j \in from..(i-1) : s[j] \in WhiteSpace
  ELSE Len(s) + 1

\* the last index whose token is not white space, or 0
LastNonSpace(s) ==
  IF \E i \in 1..Len(s) : s[i] \notin WhiteSpace
  THEN CHOOSE i \in 1..Len(s) : s[i] \notin WhiteSpace /\ \A j \in (i+1)..Len(s) : s[j] \in WhiteSpace
  ELSE 0

\* String.prototype.trim
Trim(s) == SubSeq(s, SkipSpace(s, 1), LastNonSpace(s))

Contains(s, S) == \E i \in 1..Len(s) : s[i] \in S

(***************************************************************************)
(* LlmService.parseAgentResponse                                           *)
(***************************************************************************)
RECURSIVE NameRunEnd(_, _, _)
\* where a run of units "name prefix, \s*" that starts at i ends (exclusive);
\* i itself when no unit starts at i: (User [A-Z]+:\s*)+
NameRunEnd(s, i, N) ==
  IF i <= Len(s) /\ s[i] \in N THEN NameRunEnd(s, SkipSpace(s, i + 1), N) ELSE i

\* how many units the run that starts at i holds
NameRunUnits(s, i, N) == Cardinality({j \in i..(NameRunEnd(s, i, N) - 1) : s[j] \in N})

\* replace(/^(User [A-Z]+:\s*)+/, '')
StripLeadingNames(s, N) == SubSeq(s, NameRunEnd(s, 1, N), Len(s))

RECURSIVE RemoveNameRuns(_, _, _)
\* replace(/(User [A-Z]+:\s*){2,}/g, ''), scanning from i
RemoveNameRuns(s, i, N) ==
  IF i > Len(s) THEN << >>
  ELSE IF s[i] \in N /\ NameRunUnits(s, i, N) >= 2
       THEN RemoveNameRuns(s, NameRunEnd(s, i, N), N)
       ELSE <<s[i]>> \o RemoveNameRuns(s, i + 1, N)

\* the name-prefix clean-up of each version, applied to the trimmed public capture
StripNamePrefix(variant, s) ==
  IF variant = "openai"
  THEN StripLeadingNames(s, NamePrefixesAnyCase)
  ELSE RemoveNameRuns(StripLeadingNames(s, NamePrefixesExact), 1, NamePrefixesExact)

\* responseText.match(/PUBLIC RESPONSE:\s*([\s\S]*?)(?=PRIVATE THOUGHTS:|$)/i):
\* found tells whether it matched, group is publicMatch[1]
PublicMatch(text) ==
  LET p     == FirstIndexFrom(text, PublicHeaders, 1)
      start == SkipSpace(text, p + 1)
      stop  == FirstIndexFrom(text, PrivateHeaders, start)
  IN  IF p > Len(text)
      THEN [found |-> FALSE, group |-> << >>]
      ELSE [found |-> TRUE, group |-> SubSeq(text, start, stop - 1)]

\* responseText.match(/PRIVATE THOUGHTS:\s*([\s\S]*?)$/i)
PrivateMatch(text) ==
  LET q     == FirstIndexFrom(text, PrivateHeaders, 1)
      start == SkipSpace(text, q + 1)
  IN  IF q > Len(text)
      THEN [found |-> FALSE, group |-> << >>]
      ELSE [found |-> TRUE, group |-> SubSeq(text, start, Len(text))]

\* a parser that looks for the private section only once it has a public section
parseAgentResponsePublicFirst(variant, text) ==
  LET publicMatch  == PublicMatch(text)
      privateMatch == PrivateMatch(text)
      hasPublic    == publicMatch.found /\ publicMatch.group # << >>
  IN  [publicResponse  |-> IF hasPublic
                           THEN StripNamePrefix(variant, Trim(publicMatch.group))
                           ELSE text,
       privateThoughts |-> IF hasPublic /\ privateMatch.found /\ privateMatch.group # << >>
                           THEN Trim(privateMatch.group)
                           ELSE << >>]

parseAgentResponse(variant, text) ==
  LET publicMatch  == PublicMatch(text)
      privateMatch == PrivateMatch(text)
  IN  [publicResponse  |-> IF publicMatch.found /\ publicMatch.group # << >>
                           THEN StripNamePrefix(variant, Trim(publicMatch.group))
                           ELSE text,
       privateThoughts |-> IF privateMatch.found /\ privateMatch.group # << >>
                           THEN Trim(privateMatch.group)
                           ELSE << >>]

(***************************************************************************)
(* Agent names.                                                            *)
(***************************************************************************)
\* the characters with codes 65 .. 126
CharTable ==
  <<"A", "B", "C", "D", "E", "F", "G", "H", "I", "J", "K", "L", "M",
    "N", "O", "P", "Q", "R", "S", "T", "U", "V", "W", "X", "Y", "Z",
    "[", "\\", "]", "^", "_", "(grave accent)",
    "a", "b", "c", "d", "e", "f", "g", "h", "i", "j", "k", "l", "m",
    "n", "o", "p", "q", "r", "s", "t", "u", "v", "w", "x", "y", "z",
    "{", "|", "}", "~">>

\* String.fromCharCode, for the codes of CharTable
FromCharCode(code) == CharTable[code - 64]

\* the letter part of an agent's name: String.fromCharCode(65 + i)
AgentLabel(i) == <<FromCharCode(65 + i)>>

\* the template literal: User, a space, String.fromCharCode(65 + i)
AgentName(i) == <<"User ">> \o AgentLabel(i)

\* the helper indexToLetters, which createConversation does not call
indexToLetters(index) ==
  IF index < 26
  THEN <<FromCharCode(65 + index)>>
  ELSE <<FromCharCode(65 + (index \div 26) - 1), FromCharCode(65 + (index % 26))>>

baseSystemPrompt == <<"You are an intelligent agent participating in a round-table discussion">>

(***************************************************************************)
(* DatabaseService: three tables, each a sequence of rows in rowid order.  *)
(* A database value db holds the three tables.                             *)
(***************************************************************************)
\* null
Null == 0

\* the methods class DatabaseService defines
DatabaseServiceMethods ==
  {"createConversation", "createAgent", "createMessage", "getConversation",
   "getAgentsForConversation", "getPublicMessagesForConversation",
   "getPrivateMessagesForAgent", "loadConversation", "dbMessageToMessage", "close"}

Ids(table) == {table[k].id : k \in 1..Len(table)}

\* INSERT INTO conversations: id is the primary key
createConversation(db, conversation, ioError) ==
  IF ioError
  THEN [ok |-> FALSE, error |-> "SQLITE_IOERR", db |-> db]
  ELSE IF conversation.id \in Ids(db.conversations)
       THEN [ok |-> FALSE, error |-> "SQLITE_CONSTRAINT_PRIMARYKEY", db |-> db]
       ELSE [ok |-> TRUE, error |-> "none",
             db |-> [db EXCEPT !.conversations = Append(@, conversation)]]

\* INSERT INTO agents: id is the primary key, conversation_id a foreign key that
\* SQLite checks only on a connection that enforces foreign keys
createAgent(db, agent, ioError) ==
  IF ioError
  THEN [ok |-> FALSE, error |-> "SQLITE_IOERR", db |-> db]
  ELSE IF agent.id \in Ids(db.agents)
       THEN [ok |-> FALSE, error |-> "SQLITE_CONSTRAINT_PRIMARYKEY", db |-> db]
       ELSE IF foreignKeys /\ agent.conversation_id \notin Ids(db.conversations)
            THEN [ok |-> FALSE, error |-> "SQLITE_CONSTRAINT_FOREIGNKEY", db |-> db]
            ELSE [ok |-> TRUE, error |-> "none", db |-> [db EXCEPT !.agents = Append(@, agent)]]

\* whether the rows a message refers to exist
MessageReferencesExist(db, message) ==
  /\ message.conversation_id \in Ids(db.conversations)
  /\ message.agent_id = Null \/ message.agent_id \in Ids(db.agents)

\* the row createMessage inserts: is_private ? 1 : 0
MessageRow(message) ==
  [id |-> message.id, conversation_id |-> message.conversation_id,
   agent_id |-> message.agent_id, agent_name |-> message.agent_name,
   content |-> message.content,
   is_private |-> IF message.is_private THEN 1 ELSE 0,
   timestamp |-> message.timestamp]

\* INSERT INTO messages: id is the primary key, conversation_id and agent_id are
\* foreign keys that SQLite checks only on a connection that enforces foreign keys
createMessage(db, message, ioError) ==
  IF ioError
  THEN [ok |-> FALSE, error |-> "SQLITE_IOERR", db |-> db]
  ELSE IF message.id \in Ids(db.messages)
       THEN [ok |-> FALSE, error |-> "SQLITE_CONSTRAINT_PRIMARYKEY", db |-> db]
       ELSE IF foreignKeys /\ ~MessageReferencesExist(db, message)
            THEN [ok |-> FALSE, error |-> "SQLITE_CONSTRAINT_FOREIGNKEY", db |-> db]
            ELSE [ok |-> TRUE, error |-> "none",
                  db |-> [db EXCEPT !.messages = Append(@, MessageRow(message))]]

\* a lookup that does not compare the id
getConversationOfAnyId(db, id) == db.conversations

\* getConversation: the rows with this id (at most one)
getConversation(db, id) == SelectSeq(db.conversations, LAMBDA r : r.id = id)

\* the agents of a conversation, the newest row first
getAgentsForConversationNewestFirst(db, conversationId) ==
  LET rows == SelectSeq(db.agents, LAMBDA r : r.conversation_id = conversationId)
  IN  [k \in 1..Len(rows) |-> rows[Len(rows) + 1 - k]]

\* SELECT * FROM agents WHERE conversation_id = ?: a scan in rowid order
getAgentsForConversation(db, conversationId) ==
  SelectSeq(db.agents, LAMBDA r : r.conversation_id = conversationId)

RECURSIVE InsertByTimestamp(_, _)
\* rows is sorted; row goes after every row whose timestamp is not greater
InsertByTimestamp(rows, row) ==
  IF rows = << >> THEN <<row>>
  ELSE IF rows[Len(rows)].timestamp <= row.timestamp
       THEN Append(rows, row)
       ELSE Append(InsertByTimestamp(SubSeq(rows, 1, Len(rows) - 1), row), rows[Len(rows)])

RECURSIVE OrderByTimestamp(_)
\* ORDER BY timestamp ASC; rows of equal timestamp stay in rowid order
OrderByTimestamp(rows) ==
  IF rows = << >> THEN << >>
  ELSE InsertByTimestamp(OrderByTimestamp(SubSeq(rows, 1, Len(rows) - 1)), rows[Len(rows)])

\* every row of the conversation, the private ones included
getMessagesForConversation(db, conversationId) ==
  OrderByTimestamp(SelectSeq(db.messages, LAMBDA r : r.conversation_id = conversationId))

getPublicMessagesForConversation(db, conversationId) ==
  OrderByTimestamp(SelectSeq(db.messages,
    LAMBDA r : r.conversation_id = conversationId /\ r.is_private = 0))

\* the private rows of every agent
getPrivateMessagesOfAllAgents(db, agentId) ==
  OrderByTimestamp(SelectSeq(db.messages, LAMBDA r : r.is_private = 1))

getPrivateMessagesForAgent(db, agentId) ==
  OrderByTimestamp(SelectSeq(db.messages, LAMBDA r : r.agent_id = agentId /\ r.is_private = 1))

dbMessageToMessage(dbMessage) ==
  [id |-> dbMessage.id, conversationId |-> dbMessage.conversation_id,
   agentId |-> dbMessage.agent_id, agentName |-> dbMessage.agent_name,
   content |-> dbMessage.content, isPrivate |-> (dbMessage.is_private # 0),
   timestamp |-> dbMessage.timestamp]

\* no Conversation object: loadConversation's null
NoConversation == [id |-> Null]

loadConversation(db, conversationId) ==
  LET dbConversation == getConversation(db, conversationId)
      dbAgents == getAgentsForConversation(db, conversationId)
      dbPublicMessages == getPublicMessagesForConversation(db, conversationId)
      ToAgent(dbAgent) ==
        [id |-> dbAgent.id, name |-> dbAgent.name, systemPrompt |-> dbAgent.system_prompt,
         privateThoughts |->
           LET dbPrivateMessages == getPrivateMessagesForAgent(db, dbAgent.id)
           IN  [k \in 1..Len(dbPrivateMessages) |-> dbMessageToMessage(dbPrivateMessages[k])]]
  IN  IF dbConversation = << >>
      THEN NoConversation
      ELSE [id |-> dbConversation[1].id,
            topic |-> dbConversation[1].topic,
            messages |-> [k \in 1..Len(dbPublicMessages) |->
                           dbMessageToMessage(dbPublicMessages[k])],
            agents |-> [k \in 1..Len(dbAgents) |-> ToAgent(dbAgents[k])],
            createdAt |-> dbConversation[1].created_at,
            updatedAt |-> dbConversation[1].updated_at]

\* the database as the tables hold it
Db == [conversations |-> conversations, agents |-> agents, messages |-> messages]

(***************************************************************************)
(* LlmService: the rate limiter and the backend call.                      *)
(***************************************************************************)
\* the window of checkRateLimit, in milliseconds
WindowMs == 60000

\* the clock moves in steps of half a window
ClockStep == WindowMs \div 2

MaxClock == MaxTicks * ClockStep

\* MODEL_PROVIDER is cast to ModelProvider unchecked
Providers == {"openai", "groq", "other"}

\* what the backend's chat.completions.create can do: reject, resolve with a
\* response that has no choices array, or resolve with a response whose choices
\* each hold a content or null
Throws == [kind |-> "throws", choices |-> << >>]

NoChoicesArray == [kind |-> "malformed", choices |-> << >>]

Returns(choices) == [kind |-> "returns", choices |-> choices]

Choice(content) == [hasContent |-> TRUE, content |-> content]

NullChoice == [hasContent |-> FALSE, content |-> << >>]

WellFormedText ==
  <<"PUBLIC RESPONSE:", "\n", "hello", "\n", "\n", "PRIVATE THOUGHTS:", "\n", "secret">>

EmptyPublicText == <<"public response:", "\n", "private thoughts:", "\n", "secret">>

BackendReplies ==
  {Throws, NoChoicesArray, Returns(<< >>), Returns(<<NullChoice>>),
   Returns(<<Choice(WellFormedText)>>), Returns(<<Choice(EmptyPublicText)>>)}

\* the answers the turn engine is run against; the adapter on its own meets all
EngineReplies == BackendReplies \ {NoChoicesArray}

\* how long the backend takes to answer
Latencies == {0, ClockStep}

\* response.choices[0]?.message?.content || ''
ResponseContent(reply) ==
  IF Len(reply.choices) = 0 THEN << >>
  ELSE IF reply.choices[1].hasContent THEN reply.choices[1].content ELSE << >>

\* checkRateLimit called at time now: the counter and the window start it leaves,
\* the time at which it returns, and whether it reset the window
checkRateLimit(now) ==
  LET elapsedMs == now - lastResetTime
      waitTimeMs == WindowMs - elapsedMs
  IN  IF elapsedMs >= WindowMs
      THEN [requestCount |-> 0, lastResetTime |-> now, now |-> now, reset |-> TRUE]
      ELSE IF requestCount >= rateLimit
           THEN [requestCount |-> 0, lastResetTime |-> now + waitTimeMs,
                 now |-> now + waitTimeMs, reset |-> TRUE]
           ELSE [requestCount |-> requestCount, lastResetTime |-> lastResetTime,
                 now |-> now, reset |-> FALSE]

\* whether the try block reaches a backend client
ProviderSupported ==
  \/ llmVariant = "openai"
  \/ modelProvider = "openai"
  \/ modelProvider = "groq"

\* the catch block's response
FallbackResponse(agentName, error) ==
  [publicResponse  |-> agentName \o <<" is unable to respond at the moment.">>,
   privateThoughts |-> <<"Error generating response: ", error>>]

\* LlmService.generateAgentResponse called at clock: the response it returns,
\* the state it leaves, the time it returns at
LlmGenerateAgentResponse(agentName, reply, latency) ==
  LET limit == checkRateLimit(clock)
      \* the create call resolved
      resolved == ProviderSupported /\ reply.kind # "throws"
      \* response.choices[0] could be read
      completes == resolved /\ reply.kind = "returns"
      \* llm-service.ts counts before it reads the choices, the multi-provider
      \* version after
      counted == IF llmVariant = "openai" THEN resolved ELSE completes
  IN  [requestCount  |-> IF counted THEN limit.requestCount + 1 ELSE limit.requestCount,
       lastResetTime |-> limit.lastResetTime,
       reset         |-> limit.reset,
       dispatched    |-> ProviderSupported,
       dispatchTime  |-> limit.now,
       now           |-> IF ProviderSupported THEN limit.now + latency ELSE limit.now,
       raised        |-> FALSE,
       response      |-> IF completes
                         THEN parseAgentResponse(llmVariant, ResponseContent(reply))
                         ELSE FallbackResponse(agentName,
                                IF ~ProviderSupported THEN "Error: Unsupported model provider"
                                ELSE IF resolved THEN "TypeError: reading choices"
                                ELSE "Error: backend failure")]

(***************************************************************************)
(* AgentService.                                                           *)
(***************************************************************************)
Topics == {"chess", "tea"}

SeedContent(topic) == <<"Let's discuss the following topic: ", topic>>

Idle ==
  [state |-> "idle", numTurns |-> 0, numAgents |-> 0, turn |-> 0, agentIndex |-> 0,
   updatedAt |-> 0, error |-> "none", storeFailed |-> FALSE,
   publicBefore |-> 0, privateBefore |-> << >>, steps |-> 0, resumed |-> FALSE]

NoCall ==
  [made |-> FALSE, agentName |-> << >>, messages |-> << >>, privateThoughts |-> << >>,
   replyKind |-> "none", replyContent |-> << >>,
   raised |-> FALSE,
   response |-> [publicResponse |-> << >>, privateThoughts |-> << >>],
   dispatched |-> FALSE, callTime |-> 0, dispatchTime |-> 0, returnTime |-> 0,
   windowStart |-> 0, issuedBefore |-> 0, countBefore |-> 0, countAfter |-> 0]

NoOp ==
  [op |-> "none", ok |-> TRUE, id |-> Null, error |-> "none", refsExist |-> TRUE,
   afterCreate |-> FALSE,
   publicWritten |-> FALSE, privateWritten |-> FALSE]

\* what one LlmService.generateAgentResponse call, llm, leaves in the adapter
AdapterEffect(llm, agentName, publicMessages, privateThoughts, reply) ==
  /\ requestCount' = llm.requestCount
  /\ lastResetTime' = llm.lastResetTime
  /\ issuedInWindow' = (IF llm.reset THEN 0 ELSE issuedInWindow)
                       + (IF llm.dispatched THEN 1 ELSE 0)
  /\ lastCall' = [made |-> TRUE, agentName |-> agentName,
                  messages |-> publicMessages, privateThoughts |-> privateThoughts,
                  replyKind |-> IF llm.dispatched THEN reply.kind ELSE "none",
                  replyContent |-> IF llm.dispatched THEN ResponseContent(reply) ELSE << >>,
                  raised |-> llm.raised, response |-> llm.response,
                  dispatched |-> llm.dispatched, callTime |-> clock,
                  dispatchTime |-> llm.dispatchTime, returnTime |-> llm.now,
                  windowStart |-> lastResetTime, issuedBefore |-> issuedInWindow,
                  countBefore |-> requestCount, countAfter |-> llm.requestCount]

\* an agent row that names no conversation
AgentRowOfNoConversation(conversationId, agentId, i) ==
  [id |-> agentId, conversation_id |-> Null,
   name |-> AgentName(i), system_prompt |-> baseSystemPrompt]

\* the agent row and the Agent object of loop index i
AgentRow(conversationId, agentId, i) ==
  [id |-> agentId, conversation_id |-> conversationId,
   name |-> AgentName(i), system_prompt |-> baseSystemPrompt]

AgentObject(agentId, i) ==
  [id |-> agentId, name |-> AgentName(i), systemPrompt |-> baseSystemPrompt,
   privateThoughts |-> << >>]

RECURSIVE CreateAgents(_, _, _, _, _)
\* createConversation's loop from index i on: agent i is insert number i + 2 of the
\* call and takes the uuid after the conversation's and the earlier agents'
CreateAgents(db, conversationId, i, numAgents, failAt) ==
  IF i >= numAgents
  THEN [ok |-> TRUE, error |-> "none", db |-> db]
  ELSE LET inserted == createAgent(db, AgentRow(conversationId, conversationId + 1 + i, i),
                                   failAt = i + 2)
       IN  IF inserted.ok
           THEN CreateAgents(inserted.db, conversationId, i + 1, numAgents, failAt)
           ELSE inserted

\* AgentService.createConversation(topic, numAgents); the failAt-th insert of the
\* call fails with an I/O error (0: none does)
CreateConversation(topic, numAgents, failAt) ==
  LET conversationId == nextId
      now == clock
      initialMessageId == conversationId + numAgents + 1
      initialMessage ==
        [id |-> initialMessageId, conversationId |-> conversationId, agentId |-> Null,
         agentName |-> << >>, content |-> SeedContent(topic), isPrivate |-> FALSE,
         timestamp |-> now]
      first == createConversation(Db,
                 [id |-> conversationId, topic |-> topic,
                  created_at |-> now, updated_at |-> now],
                 failAt = 1)
      loop == IF first.ok THEN CreateAgents(first.db, conversationId, 0, numAgents, failAt)
              ELSE first
      last == IF loop.ok
              THEN createMessage(loop.db,
                     [id |-> initialMessageId, conversation_id |-> conversationId,
                      agent_id |-> Null, agent_name |-> << >>,
                      content |-> initialMessage.content,
                      is_private |-> FALSE, timestamp |-> now],
                     failAt = numAgents + 2)
              ELSE loop
      result == [id |-> conversationId, topic |-> topic, messages |-> <<initialMessage>>,
                 agents |-> [k \in 1..numAgents |-> AgentObject(conversationId + k, k - 1)],
                 createdAt |-> now, updatedAt |-> now]
  IN  /\ run.state # "running"
      /\ failAt # 0 => disturbances < MaxDisturbances
      /\ conversations' = last.db.conversations
      /\ agents' = last.db.agents
      /\ messages' = last.db.messages
      \* one uuid for the conversation, one per agent reached, one for the seed
      /\ nextId' = nextId + 1 + (Len(last.db.agents) - Len(agents))
                   + (IF first.ok /\ ~loop.ok THEN 1 ELSE 0)
                   + (IF loop.ok THEN 1 ELSE 0)
      /\ conv' = IF last.ok THEN result ELSE conv
      /\ created' = IF last.ok THEN result ELSE created
      /\ run' = Idle
      /\ lastOp' = [op |-> "createConversation", ok |-> last.ok, id |-> conversationId,
                    error |-> last.error, refsExist |-> TRUE,
                    afterCreate |-> FALSE,
                    publicWritten |-> FALSE, privateWritten |-> FALSE]
      /\ disturbances' = IF failAt = 0 THEN disturbances ELSE disturbances + 1
      /\ UNCHANGED <<clock, modelProvider, rateLimit, requestCount, lastResetTime,
                     foreignKeys, lastCall, issuedInWindow, calls>>

\* AgentService.loadConversation(conversationId), as the load command calls it
LoadConversation(conversationId) ==
  /\ run.state # "running"
  /\ conv' = loadConversation(Db, conversationId)
  /\ run' = Idle
  /\ lastOp' = [op |-> "loadConversation",
                ok |-> loadConversation(Db, conversationId).id # Null,
                id |-> conversationId, error |-> "none", refsExist |-> TRUE,
                afterCreate |-> /\ lastOp.op = "createConversation"
                                /\ lastOp.ok
                                /\ lastOp.id = conversationId,
                publicWritten |-> FALSE, privateWritten |-> FALSE]
  /\ UNCHANGED <<clock, modelProvider, rateLimit, requestCount, lastResetTime,
                 foreignKeys, conversations, agents, messages, nextId, created,
                 lastCall, issuedInWindow, calls, disturbances>>

\* the public rows of the conversation the caller holds, and each agent's private rows
StorePublicCount(conversationId) ==
  Len(SelectSeq(messages, LAMBDA r : r.conversation_id = conversationId /\ r.is_private = 0))

StorePrivateCount(agentId) ==
  Len(SelectSeq(messages, LAMBDA r : r.agent_id = agentId /\ r.is_private = 1))

\* AgentService.runConversation(conv, numTurns) up to its first agent call:
\* currentConversation is a copy that shares conv's messages and agents arrays
StartRun(numTurns) ==
  /\ run.state # "running"
  /\ conv.id # Null
  /\ run' = [state |-> IF numTurns = 0 \/ Len(conv.agents) = 0 THEN "returned" ELSE "running",
             numTurns |-> numTurns, numAgents |-> Len(conv.agents),
             turn |-> 0, agentIndex |-> 0, updatedAt |-> conv.updatedAt,
             error |-> "none", storeFailed |-> FALSE,
             publicBefore |-> Len(conv.messages),
             privateBefore |-> [k \in 1..Len(conv.agents) |-> Len(conv.agents[k].privateThoughts)],
             steps |-> 0, resumed |-> lastOp.op = "loadConversation"]
  /\ lastOp' = [op |-> "runConversation", ok |-> TRUE, id |-> conv.id, error |-> "none",
                refsExist |-> TRUE, afterCreate |-> FALSE, publicWritten |-> FALSE, privateWritten |-> FALSE]
  /\ UNCHANGED <<clock, modelProvider, rateLimit, requestCount, lastResetTime,
                 foreignKeys, conversations, agents, messages, nextId, conv, created,
                 lastCall, issuedInWindow, calls, disturbances>>

\* the error of reading a property of undefined
NotFoundErrorAsTypeError(index) == "TypeError: undefined is not an object"

\* the error of generateAgentResponse's first lines for an agentIndex that names
\* no agent
NotFoundError(index) == "Agent at index " \o ToString(index) \o " not found"

\* a loop that goes on to the next agent whatever the call did
LoopStateGoingOn(returned, lastOfRun) ==
  IF lastOfRun THEN "returned" ELSE "running"

\* how a call of generateAgentResponse that ended leaves the loop of
\* runConversation: an error leaves through the await, a return goes on
LoopState(returned, lastOfRun) ==
  IF ~returned THEN "raised" ELSE IF lastOfRun THEN "returned" ELSE "running"

\* AgentService.generateAgentResponse(conversation, index), from its call to
\* its return or its error.  conversation is conv itself, or within
\* runConversation (inRun) the copy that shares conv's messages and agents
\* arrays.  fail names the store write that fails with an I/O error.
GenerateAgentResponse(index, inRun, reply, latency, fail) ==
  IF index \notin 0..(Len(conv.agents) - 1)
  THEN /\ lastOp' = [op |-> "generateAgentResponse", ok |-> FALSE, id |-> conv.id,
                     error |-> NotFoundError(index), refsExist |-> TRUE,
                     afterCreate |-> FALSE, publicWritten |-> FALSE,
                     privateWritten |-> FALSE]
       /\ fail = "none"
       /\ UNCHANGED <<clock, modelProvider, rateLimit, requestCount, lastResetTime,
                      foreignKeys, conversations, agents, messages, nextId, conv, created,
                      lastCall, issuedInWindow, calls, disturbances>>
  ELSE
  LET agent == conv.agents[index + 1]
      publicMessages == SelectSeq(conv.messages, LAMBDA msg : ~msg.isPrivate)
      privateThoughts == agent.privateThoughts
      llm == LlmGenerateAgentResponse(agent.name, reply, latency)
      now == llm.now
      publicMessageId == nextId
      privateThoughtId == nextId + 1
      publicMessage ==
        [id |-> publicMessageId, conversationId |-> conv.id, agentId |-> agent.id,
         agentName |-> agent.name, content |-> llm.response.publicResponse,
         isPrivate |-> FALSE, timestamp |-> now]
      privateThought ==
        [id |-> privateThoughtId, conversationId |-> conv.id, agentId |-> agent.id,
         agentName |-> agent.name, content |-> llm.response.privateThoughts,
         isPrivate |-> TRUE, timestamp |-> now]
      first == createMessage(Db,
                 [id |-> publicMessageId, conversation_id |-> conv.id,
                  agent_id |-> agent.id, agent_name |-> agent.name,
                  content |-> llm.response.publicResponse, is_private |-> FALSE,
                  timestamp |-> now],
                 fail = "public")
      \* reached only when the first insert has not thrown
      second == IF first.ok
                THEN createMessage(first.db,
                       [id |-> privateThoughtId, conversation_id |-> conv.id,
                        agent_id |-> agent.id, agent_name |-> agent.name,
                        content |-> llm.response.privateThoughts, is_private |-> TRUE,
                        timestamp |-> now],
                       fail = "private")
                ELSE first
      \* both inserts done: the in-memory appends run, then this.dbService.updateConversation
      \* is called, which raises a TypeError when the class defines no such method
      appended == first.ok /\ second.ok
      hasUpdate == "updateConversation" \in DatabaseServiceMethods
      returns == appended /\ hasUpdate
      error == IF ~first.ok THEN first.error
               ELSE IF ~second.ok THEN second.error
               ELSE IF ~hasUpdate THEN "TypeError: updateConversation is not a function"
               ELSE "none"
  IN  /\ calls < MaxCalls
      /\ fail # "none" => disturbances < MaxDisturbances
      /\ now <= MaxClock
      /\ clock' = now
      /\ AdapterEffect(llm, agent.name, publicMessages, privateThoughts, reply)
      /\ messages' = second.db.messages
      /\ nextId' = IF first.ok THEN nextId + 2 ELSE nextId + 1
      /\ conv' = IF appended
                 THEN [conv EXCEPT !.messages = Append(@, publicMessage),
                                   !.agents[index + 1].privateThoughts =
                                      Append(@, privateThought),
                                   !.updatedAt = IF inRun THEN @ ELSE now]
                 ELSE conv
      /\ lastOp' = [op |-> "generateAgentResponse", ok |-> returns, id |-> conv.id,
                    error |-> error, refsExist |-> TRUE, afterCreate |-> FALSE,
                    publicWritten |-> first.ok, privateWritten |-> appended]
      /\ calls' = calls + 1
      /\ disturbances' = IF fail = "none" THEN disturbances ELSE disturbances + 1
      /\ UNCHANGED <<modelProvider, rateLimit, foreignKeys, conversations, agents, created>>

\* One pass of runConversation's inner loop: generateAgentResponse for the agent
\* at run.agentIndex, then the loop's step
RunStep(reply, latency, fail) ==
  LET lastOfTurn == run.agentIndex + 1 = run.numAgents
      lastOfRun == lastOfTurn /\ run.turn + 1 = run.numTurns
  IN  /\ run.state = "running"
      /\ GenerateAgentResponse(run.agentIndex, TRUE, reply, latency, fail)
      /\ run' = [run EXCEPT
                   !.state = LoopState(lastOp'.ok, lastOfRun),
                   !.error = lastOp'.error,
                   !.storeFailed = fail # "none",
                   !.updatedAt = IF lastOp'.privateWritten THEN clock' ELSE @,
                   !.agentIndex = IF ~lastOp'.ok THEN @ ELSE IF lastOfTurn THEN 0 ELSE @ + 1,
                   !.turn = IF lastOp'.ok /\ lastOfTurn THEN @ + 1 ELSE @,
                   !.steps = IF lastOp'.ok THEN @ + 1 ELSE @]

\* generateAgentResponse called on the conversation the caller holds, outside
\* runConversation
CallGenerateAgentResponse(index, reply, latency, fail) ==
  /\ run.state # "running"
  /\ conv.id # Null
  /\ GenerateAgentResponse(index, FALSE, reply, latency, fail)
  /\ run' = Idle

\* time passes between operations
Tick ==
  /\ run.state # "running"
  /\ clock + ClockStep <= MaxClock
  /\ clock' = clock + ClockStep
  /\ UNCHANGED <<modelProvider, rateLimit, requestCount, lastResetTime, foreignKeys,
                 conversations, agents, messages, nextId, conv, run, created, lastOp,
                 lastCall, issuedInWindow, calls, disturbances>>

\* the wall clock is set back
ClockSetBack ==
  /\ run.state # "running"
  /\ clock >= ClockStep
  /\ disturbances < MaxDisturbances
  /\ clock' = clock - ClockStep
  /\ disturbances' = disturbances + 1
  /\ UNCHANGED <<modelProvider, rateLimit, requestCount, lastResetTime, foreignKeys,
                 conversations, agents, messages, nextId, conv, run, created, lastOp,
                 lastCall, issuedInWindow, calls>>

(***************************************************************************)
(* Specifications.                                                         *)
(***************************************************************************)
parserVars == <<responseText, parsed>>

namingVars == <<agentIndex, named>>

engineVars ==
  <<clock, modelProvider, rateLimit, requestCount, lastResetTime, foreignKeys,
    conversations, agents, messages, nextId, conv, run, created, lastOp, lastCall,
    issuedInWindow, calls, disturbances>>

vars == <<llmVariant, parserVars, namingVars, engineVars>>

NotParsed == [done |-> FALSE, publicResponse |-> << >>, privateThoughts |-> << >>]

NotNamed == [done |-> FALSE, name |-> << >>]

ParserAtRest == responseText = << >> /\ parsed = NotParsed

NamingAtRest == agentIndex = 0 /\ named = NotNamed

\* parseInt(process.env.RATE_LIMIT || '60', 10)
DefaultRateLimit == 60

\* the services as their constructors leave them, on an empty database
Constructed ==
  /\ clock = 0
  /\ requestCount = 0
  /\ lastResetTime = clock
  /\ conversations = << >>
  /\ agents = << >>
  /\ messages = << >>
  /\ nextId = 1
  /\ conv = NoConversation
  /\ run = Idle
  /\ created = NoConversation
  /\ lastOp = NoOp
  /\ lastCall = NoCall
  /\ issuedInWindow = 0
  /\ calls = 0
  /\ disturbances = 0

\* the configuration when the environment sets nothing, on a connection that
\* keeps SQLite's default of not enforcing foreign keys
DefaultConfiguration ==
  /\ modelProvider = "openai"
  /\ rateLimit = DefaultRateLimit
  /\ foreignKeys = FALSE

EngineAtRest == Constructed /\ DefaultConfiguration

Init ==
  /\ llmVariant \in LlmVariants
  /\ ParserAtRest
  /\ NamingAtRest
  /\ Constructed
  /\ DefaultConfiguration

Next ==
  \/ /\ Len(conversations) < MaxConversations
     /\ \E topic \in Topics, numAgents \in 1..MaxAgents :
          \E failAt \in 0..(numAgents + 2) : CreateConversation(topic, numAgents, failAt)
     /\ UNCHANGED <<llmVariant, parserVars, namingVars>>
  \/ /\ \E id \in Ids(conversations) \cup {nextId} : LoadConversation(id)
     /\ UNCHANGED <<llmVariant, parserVars, namingVars>>
  \/ /\ \E numTurns \in 0..MaxTurns : StartRun(numTurns)
     /\ UNCHANGED <<llmVariant, parserVars, namingVars>>
  \/ /\ \E reply \in EngineReplies, fail \in {"none", "public", "private"} :
          RunStep(reply, 0, fail)
     /\ UNCHANGED <<llmVariant, parserVars, namingVars>>
  \/ /\ Tick
     /\ UNCHANGED <<llmVariant, parserVars, namingVars>>
  \/ /\ ClockSetBack
     /\ UNCHANGED <<llmVariant, parserVars, namingVars>>

Spec == Init /\ [][Next]_vars

(***************************************************************************)
(* The methods of AgentService called one by one: a conversation is        *)
(* created or loaded, and generateAgentResponse is called for any agent    *)
(* index, within a run or directly.                                        *)
(***************************************************************************)
CallsNext ==
  \/ /\ Len(conversations) < MaxConversations
     /\ \E topic \in Topics, numAgents \in 1..MaxAgents :
          \E failAt \in 0..(numAgents + 2) : CreateConversation(topic, numAgents, failAt)
     /\ UNCHANGED <<llmVariant, parserVars, namingVars>>
  \/ /\ \E id \in Ids(conversations) \cup {nextId} : LoadConversation(id)
     /\ UNCHANGED <<llmVariant, parserVars, namingVars>>
  \/ /\ \E numTurns \in 0..MaxTurns : StartRun(numTurns)
     /\ UNCHANGED <<llmVariant, parserVars, namingVars>>
  \/ /\ \E reply \in EngineReplies, fail \in {"none", "public", "private"} :
          RunStep(reply, 0, fail)
     /\ UNCHANGED <<llmVariant, parserVars, namingVars>>
  \/ /\ \E index \in (-1)..MaxAgents, reply \in EngineReplies,
            fail \in {"none", "public", "private"} :
          CallGenerateAgentResponse(index, reply, 0, fail)
     /\ UNCHANGED <<llmVariant, parserVars, namingVars>>

SpecCalls == Init /\ [][CallsNext]_vars

(***************************************************************************)
(* Creating and loading: several conversations in one database, created    *)
(* (with inserts that may fail) and loaded.                                *)
(***************************************************************************)
RoundTripNext ==
  \/ /\ Len(conversations) < MaxStored
     /\ \E topic \in Topics, numAgents \in 1..MaxAgents :
          \E failAt \in 0..(numAgents + 2) : CreateConversation(topic, numAgents, failAt)
     /\ UNCHANGED <<llmVariant, parserVars, namingVars>>
  \/ /\ \E id \in Ids(conversations) \cup {nextId} : LoadConversation(id)
     /\ UNCHANGED <<llmVariant, parserVars, namingVars>>

SpecRoundTrip == Init /\ [][RoundTripNext]_vars

(***************************************************************************)
(* The parser on its own: every text of at most MaxTextLen tokens.         *)
(***************************************************************************)
Texts == UNION {[1..n -> Tokens] : n \in 0..MaxTextLen}

ParseInit ==
  /\ llmVariant \in LlmVariants
  /\ responseText \in Texts
  /\ parsed = NotParsed
  /\ NamingAtRest
  /\ EngineAtRest

ParseResponse ==
  /\ ~parsed.done
  /\ parsed' = [done |-> TRUE,
                publicResponse  |-> parseAgentResponse(llmVariant, responseText).publicResponse,
                privateThoughts |-> parseAgentResponse(llmVariant, responseText).privateThoughts]
  /\ UNCHANGED <<llmVariant, responseText, namingVars, engineVars>>

ParseNext == ParseResponse

SpecParse == ParseInit /\ [][ParseNext]_vars

(***************************************************************************)
(* The naming of agents on its own: the body of createConversation's loop  *)
(* for every index up to MaxIndex.                                         *)
(***************************************************************************)
NamingInit ==
  /\ llmVariant \in LlmVariants
  /\ ParserAtRest
  /\ agentIndex \in 0..MaxIndex
  /\ named = NotNamed
  /\ EngineAtRest

NameAgent ==
  /\ ~named.done
  /\ named' = [done |-> TRUE, name |-> AgentName(agentIndex)]
  /\ UNCHANGED <<llmVariant, parserVars, agentIndex, engineVars>>

NamingNext == NameAgent

SpecNaming == NamingInit /\ [][NamingNext]_vars


(***************************************************************************)
(* The adapter on its own: one LlmService instance, called again and again *)
(* under every configuration, with a backend that answers, answers late or *)
(* fails.                                                                  *)
(***************************************************************************)
AgentNames == {AgentName(0)}

LimiterInit ==
  /\ llmVariant \in LlmVariants
  /\ ParserAtRest
  /\ NamingAtRest
  /\ Constructed
  /\ modelProvider \in (IF llmVariant = "multi" THEN Providers ELSE {"openai"})
  /\ rateLimit \in 1..MaxRateLimit
  /\ foreignKeys = FALSE

\* one LlmService.generateAgentResponse call from start to return
AdapterCall(agentName, reply, latency) ==
  LET llm == LlmGenerateAgentResponse(agentName, reply, latency)
  IN  /\ calls < MaxAdapterCalls
      /\ llm.now <= MaxClock
      /\ clock' = llm.now
      /\ AdapterEffect(llm, agentName, << >>, << >>, reply)
      /\ calls' = calls + 1
      /\ UNCHANGED <<modelProvider, rateLimit, foreignKeys, conversations, agents,
                     messages, nextId, conv, run, created, lastOp, disturbances>>

LimiterNext ==
  \/ /\ \E agentName \in AgentNames, reply \in BackendReplies, latency \in Latencies :
          AdapterCall(agentName, reply, latency)
     /\ UNCHANGED <<llmVariant, parserVars, namingVars>>
  \/ /\ Tick
     /\ UNCHANGED <<llmVariant, parserVars, namingVars>>
  \/ /\ ClockSetBack
     /\ UNCHANGED <<llmVariant, parserVars, namingVars>>

SpecLimiter == LimiterInit /\ [][LimiterNext]_vars

(***************************************************************************)
(* The store on its own: DatabaseService's three inserts, called with      *)
(* fresh ids and with references to rows that exist or do not, on a        *)
(* connection that enforces foreign keys or (SQLite's default) does not.   *)
(***************************************************************************)
StoreInit ==
  /\ llmVariant \in LlmVariants
  /\ ParserAtRest
  /\ NamingAtRest
  /\ Constructed
  /\ modelProvider = "openai"
  /\ rateLimit = DefaultRateLimit
  /\ foreignKeys \in BOOLEAN

StoreOp(op, result, id, refsExist) ==
  /\ conversations' = result.db.conversations
  /\ agents' = result.db.agents
  /\ messages' = result.db.messages
  /\ nextId' = IF result.ok THEN nextId + 1 ELSE nextId
  /\ lastOp' = [NoOp EXCEPT !.op = op, !.ok = result.ok, !.id = id,
                            !.error = result.error, !.refsExist = refsExist]
  /\ UNCHANGED <<clock, modelProvider, rateLimit, requestCount, lastResetTime,
                 foreignKeys, conv, run, created, lastCall, issuedInWindow, calls,
                 disturbances>>

StoreCreateConversation(topic) ==
  /\ Len(conversations) < MaxRows
  /\ StoreOp("createConversation",
             createConversation(Db, [id |-> nextId, topic |-> topic,
                                     created_at |-> clock, updated_at |-> clock], FALSE),
             nextId, TRUE)

StoreCreateAgent(conversationId) ==
  /\ Len(agents) < MaxRows
  /\ StoreOp("createAgent",
             createAgent(Db, AgentRow(conversationId, nextId, 0), FALSE),
             nextId, conversationId \in Ids(conversations))

StoreCreateMessage(conversationId, agentId) ==
  LET message == [id |-> nextId, conversation_id |-> conversationId, agent_id |-> agentId,
                  agent_name |-> IF agentId = Null THEN << >> ELSE AgentName(0),
                  content |-> <<"x">>, is_private |-> FALSE, timestamp |-> clock]
  IN  /\ Len(messages) < MaxRows
      /\ StoreOp("createMessage", createMessage(Db, message, FALSE), nextId,
                 MessageReferencesExist(Db, message))

StoreNext ==
  \/ /\ \E topic \in Topics : StoreCreateConversation(topic)
     /\ UNCHANGED <<llmVariant, parserVars, namingVars>>
  \/ /\ \E conversationId \in Ids(conversations) \cup {nextId} :
          StoreCreateAgent(conversationId)
     /\ UNCHANGED <<llmVariant, parserVars, namingVars>>
  \/ /\ \E conversationId \in Ids(conversations) \cup {nextId},
            agentId \in {Null} \cup Ids(agents) \cup {nextId} :
          StoreCreateMessage(conversationId, agentId)
     /\ UNCHANGED <<llmVariant, parserVars, namingVars>>

SpecStore == StoreInit /\ [][StoreNext]_vars


(***************************************************************************)
(* Properties.                                                             *)
(***************************************************************************)
RunEnded == run.state \in {"returned", "raised"}

\* C1: when no store write fails, a runConversation(conv, t) that has ended on a
\* conversation of n agents has added exactly t*n public messages, the k-th of
\* them (k from 0) written by the agent at index k mod n, and exactly t private
\* thoughts to each agent.
C1_RunAddsTurnsTimesAgents ==
  (RunEnded /\ ~run.storeFailed) =>
     LET n == run.numAgents
         new == run.numTurns * n
     IN  /\ Len(conv.messages) = run.publicBefore + new
         /\ \A k \in 0..(new - 1) :
               /\ run.publicBefore + k + 1 <= Len(conv.messages)
               /\ conv.messages[run.publicBefore + k + 1].agentId = conv.agents[(k % n) + 1].id
         /\ \A a \in 1..n :
               Len(conv.agents[a].privateThoughts) = run.privateBefore[a] + run.numTurns

UnableToRespond(agentName) == agentName \o <<" is unable to respond at the moment.">>

\* C2: when the backend call of an agent's turn throws (and the store accepts the
\* writes), the adapter does not raise, generateAgentResponse completes, the
\* last public message names the agent and says it is unable to respond, the
\* agent's last private thought records the error, and the turn loop goes on.
C2_BackendFailureContained ==
  (lastOp.op = "generateAgentResponse" /\ lastCall.replyKind = "throws" /\ ~run.storeFailed) =>
     /\ ~lastCall.raised
     /\ lastOp.ok
     /\ run.state \in {"running", "returned"}
     /\ conv.messages[Len(conv.messages)].content = UnableToRespond(lastCall.agentName)
     /\ \E a \in 1..Len(conv.agents) :
           /\ conv.agents[a].name = lastCall.agentName
           /\ conv.agents[a].privateThoughts # << >>
           /\ LET thoughts == conv.agents[a].privateThoughts
              IN  thoughts[Len(thoughts)].content[1] = "Error generating response: "

\* C3: when the backend returns without throwing but with no choices or with null
\* or empty content, the adapter returns the fallback response: the unavailable
\* notice naming the agent as public text, a record of the error as private text.
C3_EmptyResponseGivesFallback ==
  (lastCall.made /\ lastCall.replyKind = "returns" /\ lastCall.replyContent = << >>) =>
     /\ lastCall.response.publicResponse = UnableToRespond(lastCall.agentName)
     /\ lastCall.response.privateThoughts # << >>
     /\ lastCall.response.privateThoughts[1] = "Error generating response: "

\* C4: a call made within the current window after as many requests as the
\* threshold have been issued in that window does not dispatch its request
\* before the window boundary, window start + 60 s.
C4_CallOverThresholdWaitsForBoundary ==
  ( /\ lastCall.made
    /\ lastCall.dispatched
    /\ lastCall.issuedBefore >= rateLimit
    /\ lastCall.windowStart <= lastCall.callTime
    /\ lastCall.callTime < lastCall.windowStart + WindowMs ) =>
     lastCall.dispatchTime >= lastCall.windowStart + WindowMs

\* C5: the number of backend requests dispatched since the window start was last
\* reset never exceeds the configured RATE_LIMIT, whether the requests succeeded
\* or failed.
C5_DispatchedInWindowWithinRateLimit == issuedInWindow <= rateLimit

LoadedAfterCreate == lastOp.op = "loadConversation" /\ lastOp.afterCreate

\* C6: loadConversation of the id createConversation(topic, n) has just returned
\* gives an aggregate with the same topic, the n agents with the same names and
\* system prompts in creation order, no private thoughts, and exactly one
\* message, public, whose content is the seed message content.
C6_LoadAfterCreateRoundTrip ==
  LoadedAfterCreate =>
     /\ conv.id = created.id
     /\ conv.topic = created.topic
     /\ Len(conv.agents) = Len(created.agents)
     /\ \A k \in 1..Len(created.agents) :
           /\ k <= Len(conv.agents)
           /\ conv.agents[k].name = created.agents[k].name
           /\ conv.agents[k].systemPrompt = created.agents[k].systemPrompt
           /\ conv.agents[k].privateThoughts = << >>
     /\ Len(conv.messages) = 1
     /\ ~conv.messages[1].isPrivate
     /\ conv.messages[1].content = created.messages[1].content
     /\ conv.messages[1].content = <<"Let's discuss the following topic: ", created.topic>>

\* a conversation of two agents loaded right after its creation, in a database
\* that already holds another conversation with its agents and its seed message
C6_Witness ==
  /\ LoadedAfterCreate
  /\ Len(created.agents) = 2
  /\ Len(conv.agents) = 2
  /\ Len(conversations) = 2
  /\ \E k \in 1..Len(agents) : agents[k].conversation_id # conv.id
  /\ \E k \in 1..Len(messages) : messages[k].conversation_id # conv.id

Letters ==
  <<"A", "B", "C", "D", "E", "F", "G", "H", "I", "J", "K", "L", "M",
    "N", "O", "P", "Q", "R", "S", "T", "U", "V", "W", "X", "Y", "Z">>

RECURSIVE SpreadsheetLabel(_)
\* the spreadsheet column label of index i: A .. Z, AA .. AZ, BA ..
SpreadsheetLabel(i) ==
  IF i < 26 THEN <<Letters[i + 1]>>
  ELSE SpreadsheetLabel((i \div 26) - 1) \o <<Letters[(i % 26) + 1]>>

\* C7: the agent of index i is named with the spreadsheet-style letter label of
\* i (25 is Z, 26 is AA, 51 is AZ, 52 is BA), and no agent of another index has
\* the same name.
C7_AgentNamesAreSpreadsheetLabels ==
  named.done =>
     /\ named.name = <<"User ">> \o SpreadsheetLabel(agentIndex)
     /\ \A j \in 0..MaxIndex : j # agentIndex => AgentName(j) # named.name

\* C8: a createMessage whose conversationId names no conversation, or whose
\* non-null agentId names no agent, fails with a foreign-key violation and
\* leaves all three tables unchanged.
C8_UnknownReferenceIsRejected ==
  [][(lastOp'.op = "createMessage" /\ ~lastOp'.refsExist) =>
       /\ ~lastOp'.ok
       /\ lastOp'.error = "SQLITE_CONSTRAINT_FOREIGNKEY"
       /\ UNCHANGED <<conversations, agents, messages>>]_vars

NoPublicSection == ~Contains(responseText, PublicHeaders)

\* C9 as stated: for a raw text without a PUBLIC RESPONSE section, also one with
\* a PRIVATE THOUGHTS header, parse returns the entire raw text as publicResponse
\* and the empty string as privateThoughts.
C9_NoPublicSectionLeavesPrivateEmpty ==
  (parsed.done /\ NoPublicSection) =>
     /\ parsed.publicResponse = responseText
     /\ parsed.privateThoughts = << >>

\* the raw text after its first PRIVATE THOUGHTS header; empty without one
AfterPrivateHeader ==
  SubSeq(responseText, FirstIndexFrom(responseText, PrivateHeaders, 1) + 1, Len(responseText))

\* C9 as amended: for a raw text without a PUBLIC RESPONSE header, parse returns
\* the entire raw text as publicResponse; privateThoughts is the text after the
\* first PRIVATE THOUGHTS header with surrounding white space removed, and the
\* empty string when there is no such header.
C9_NoPublicSectionKeepsPrivateSection ==
  (parsed.done /\ NoPublicSection) =>
     /\ parsed.publicResponse = responseText
     /\ parsed.privateThoughts = Trim(AfterPrivateHeader)

\* a parsed text without a public section whose private section is not empty
C9_Witness ==
  /\ parsed.done
  /\ NoPublicSection
  /\ Contains(responseText, PrivateHeaders)
  /\ parsed.privateThoughts # << >>
  /\ parsed.publicResponse = responseText

Plain == WhiteSpace \cup Words

\* C10: for a raw text made of a PUBLIC RESPONSE header, a body P, a PRIVATE
\* THOUGHTS header and a body Q, the headers in either letter case, parse returns
\* P and Q with surrounding white space removed, also when P is empty or only
\* white space.  P and Q range over the bodies without headers and without name
\* prefixes.
C10_SectionsAreTrimmedBodies ==
  parsed.done =>
     \A q \in 2..Len(responseText) :
        ( /\ responseText[1] \in PublicHeaders
          /\ responseText[q] \in PrivateHeaders
          /\ \A j \in 2..Len(responseText) : j # q => responseText[j] \in Plain ) =>
           /\ parsed.publicResponse = Trim(SubSeq(responseText, 2, q - 1))
           /\ parsed.privateThoughts = Trim(SubSeq(responseText, q + 1, Len(responseText)))


\* where the public section of the raw text begins: after the first PUBLIC
\* RESPONSE header and the white space that follows it
PublicSectionStart == SkipSpace(responseText, FirstIndexFrom(responseText, PublicHeaders, 1) + 1)

\* the public section begins with a name prefix, in either letter case
PublicSectionHasNamePrefix ==
  /\ Contains(responseText, PublicHeaders)
  /\ PublicSectionStart <= Len(responseText)
  /\ responseText[PublicSectionStart] \in NamePrefixesAnyCase

\* C11: when the public section begins with one or more repetitions of a name
\* prefix, in any letter case, the publicResponse that parse returns does not
\* start with a name prefix.
C11_LeadingNamePrefixesAreRemoved ==
  (parsed.done /\ PublicSectionHasNamePrefix) =>
     \/ parsed.publicResponse = << >>
     \/ parsed.publicResponse[1] \notin NamePrefixesAnyCase


\* C12: in every backend call made for an agent, the history argument holds
\* every public message of the conversation the call is made with and no
\* private message, and the private-thoughts argument holds only private
\* messages that this agent wrote and that the store holds as its own.
C12_OnlyOwnPrivateThoughtsArePassed ==
  [][calls' # calls =>
       LET history == lastCall'.messages
           thoughts == lastCall'.privateThoughts
       IN  /\ \A k \in 1..Len(conv.messages) :
                 ~conv.messages[k].isPrivate =>
                    \E j \in 1..Len(history) : history[j] = conv.messages[k]
           /\ \A j \in 1..Len(history) : ~history[j].isPrivate
           /\ \E a \in 1..Len(conv.agents) :
                 /\ conv.agents[a].name = lastCall'.agentName
                 /\ \A j \in 1..Len(thoughts) :
                       /\ thoughts[j].isPrivate
                       /\ thoughts[j].agentId = conv.agents[a].id
                       /\ \E k \in 1..Len(messages) :
                             /\ messages[k].id = thoughts[j].id
                             /\ messages[k].agent_id = conv.agents[a].id
                             /\ messages[k].is_private = 1]_vars

\* a backend call made for the second agent, with the first agent's public reply
\* in its history, while the store holds a private thought of the first agent
C12_Witness ==
  /\ lastCall.made
  /\ lastCall.agentName = AgentName(1)
  /\ Len(lastCall.messages) >= 2
  /\ \E k \in 1..Len(messages) :
        messages[k].is_private = 1 /\ messages[k].agent_name = AgentName(0)


RECURSIVE IsInfixFrom(_, _, _)
\* whether part occurs in text at index i or later
IsInfixFrom(part, text, i) ==
  IF i + Len(part) - 1 > Len(text) THEN FALSE
  ELSE IF SubSeq(text, i, i + Len(part) - 1) = part THEN TRUE
  ELSE IsInfixFrom(part, text, i + 1)

\* the text the model wrote under its first PRIVATE THOUGHTS header
PrivateSectionOf(text) ==
  Trim(SubSeq(text, FirstIndexFrom(text, PrivateHeaders, 1) + 1, Len(text)))

\* the public rows of the store that agents wrote, newest last
AgentPublicRows ==
  SelectSeq(messages, LAMBDA r : r.is_private = 0 /\ r.agent_id # Null)

\* C13: when the model's raw output has a PRIVATE THOUGHTS section, the content
\* stored as the agent's public message does not contain the text of that
\* section.
C13_PrivateSectionIsNotPublished ==
  ( /\ lastOp.op = "generateAgentResponse"
    /\ lastOp.publicWritten
    /\ lastCall.replyKind = "returns"
    /\ Contains(lastCall.replyContent, PrivateHeaders)
    /\ PrivateSectionOf(lastCall.replyContent) # << >> ) =>
     ~IsInfixFrom(PrivateSectionOf(lastCall.replyContent),
                  AgentPublicRows[Len(AgentPublicRows)].content, 1)


\* C14: a conversation's updatedAt is never smaller than its createdAt, in the
\* aggregate the caller holds, in the copy a run works on and in the store, and
\* no step of a run or call makes it smaller than it was, whatever the clock
\* returns.
C14_UpdatedAtOnlyMovesForward ==
  [][ /\ conv'.id # Null => conv'.updatedAt >= conv'.createdAt
      /\ (conv.id # Null /\ lastOp'.op = "generateAgentResponse") =>
            conv'.updatedAt >= conv.updatedAt
      /\ run'.state # "idle" => run'.updatedAt >= conv'.createdAt
      /\ run.state = "running" => run'.updatedAt >= run.updatedAt
      /\ \A k \in 1..Len(conversations') :
            conversations'[k].updated_at >= conversations'[k].created_at ]_vars


\* C15: with a store that accepts every insert, a runConversation of one turn or
\* more ends by returning, without an error.
C15_RunReturnsNormally ==
  (RunEnded /\ ~run.storeFailed /\ run.numTurns >= 1 /\ run.numAgents >= 1) =>
     /\ run.state = "returned"
     /\ run.error = "none"

RowsOfConversation(table, conversationId) ==
  SelectSeq(table, LAMBDA r : r.conversation_id = conversationId)

\* C16: after a createConversation has ended, by returning or by raising, the
\* store holds the conversation row, every agent row and the seed message of
\* that conversation, or none of them.
C16_CreationIsAllOrNothing ==
  lastOp.op = "createConversation" =>
     \/ /\ lastOp.ok
        /\ lastOp.id \in Ids(conversations)
        /\ Len(RowsOfConversation(agents, lastOp.id)) = Len(created.agents)
        /\ Len(RowsOfConversation(messages, lastOp.id)) = 1
     \/ /\ ~lastOp.ok
        /\ lastOp.id \notin Ids(conversations)
        /\ RowsOfConversation(agents, lastOp.id) = << >>
        /\ RowsOfConversation(messages, lastOp.id) = << >>

\* the public rows an agent wrote
StorePublicCountOfAgent(agentId) ==
  Len(SelectSeq(messages, LAMBDA r : r.agent_id = agentId /\ r.is_private = 0))

\* C17: the store holds the public message of a turn exactly when it holds the
\* private message of that turn: every agent has as many public rows as private
\* rows, also after a store write has failed within generateAgentResponse.
C17_TurnIsAllOrNothing ==
  \A k \in 1..Len(agents) :
     StorePublicCountOfAgent(agents[k].id) = StorePrivateCount(agents[k].id)


IsPrefix(rows, table) ==
  /\ Len(rows) <= Len(table)
  /\ \A k \in 1..Len(rows) : table[k] = rows[k]

\* C18: when a store write fails during an agent call of runConversation, the
\* run ends with that error, every row the store held before the call is still
\* there, and the run makes no further backend call and no further store write.
C18_StoreFailureEndsTheRun ==
  [][ /\ (run.state = "running" /\ run'.storeFailed) =>
            /\ run'.state = "raised"
            /\ run'.error = "SQLITE_IOERR"
            /\ lastOp'.error = "SQLITE_IOERR"
            /\ IsPrefix(messages, messages')
            /\ UNCHANGED <<conversations, agents>>
      /\ (run.storeFailed /\ run'.storeFailed) =>
            /\ run'.state = "raised"
            /\ UNCHANGED <<calls, lastCall, requestCount, conversations, agents, messages>> ]_vars

\* a run that a failed insert of the private thought has ended after its public
\* message was written, in a store that holds the rows of an earlier agent call
C18_Witness ==
  /\ run.state = "raised"
  /\ run.storeFailed
  /\ lastOp.publicWritten
  /\ ~lastOp.privateWritten
  /\ calls = 2
  /\ Len(messages) = 4


\* C19: generateAgentResponse called with an agentIndex outside 0..n-1 fails
\* with the not-found error of that index, makes no backend call and no store
\* write, and leaves the aggregate, the store and the rate-limit counter as
\* they were.
C19_IndexOutOfRangeIsNotFound ==
  [][ \A index \in (-1)..MaxAgents, reply \in EngineReplies :
        ( /\ conv.id # Null
          /\ index \notin 0..(Len(conv.agents) - 1)
          /\ CallGenerateAgentResponse(index, reply, 0, "none") ) =>
            /\ lastOp'.op = "generateAgentResponse"
            /\ ~lastOp'.ok
            /\ lastOp'.error = "Agent at index " \o ToString(index) \o " not found"
            /\ UNCHANGED <<conv, conversations, agents, messages, nextId>>
            /\ UNCHANGED <<requestCount, lastResetTime, clock>>
            /\ UNCHANGED <<calls, lastCall, issuedInWindow>> ]_vars

\* a call with an index that names no agent, made on a conversation of two
\* agents after one of them has spoken
C19_Witness ==
  /\ lastOp.op = "generateAgentResponse"
  /\ ~lastOp.ok
  /\ lastOp.error \in {"Agent at index -1 not found", "Agent at index 2 not found"}
  /\ ~lastOp.publicWritten
  /\ disturbances = 0
  /\ calls = 1
  /\ Len(conv.agents) = 2
  /\ Len(conv.messages) = 2
  /\ StorePublicCount(conv.id) = 2


\* C20: loadConversation(id) returns absent exactly when the store holds no
\* conversation with that id (and the conversation of that id otherwise), and
\* an absent result is followed by no run: no backend call and no store write
\* is made, and no conversation is left to run.
C20_LoadIsAbsentExactlyForUnknownId ==
  [][ /\ conv'.id = Null => run'.state = "idle"
      /\ \A id \in Ids(conversations) \cup {nextId} :
           LoadConversation(id) =>
             /\ (conv'.id = Null) <=> (id \notin Ids(conversations))
             /\ conv'.id # Null => conv'.id = id
             /\ lastOp'.ok <=> (conv'.id # Null)
             /\ conv'.id = Null =>
                   /\ UNCHANGED <<calls, lastCall, requestCount, issuedInWindow>>
                   /\ UNCHANGED <<conversations, agents, messages, nextId>> ]_vars

\* a load of an id the store does not hold, from a store that holds a
\* conversation an agent has already spoken in
C20_Witness ==
  /\ lastOp.op = "loadConversation"
  /\ ~lastOp.ok
  /\ lastOp.id \notin Ids(conversations)
  /\ conv = NoConversation
  /\ conversations # << >>
  /\ calls = 1


\* the public rows of a conversation that agents wrote, in the order of their
\* insertion
AgentPublicRowsOf(conversationId) ==
  SelectSeq(messages, LAMBDA r : /\ r.conversation_id = conversationId
                                 /\ r.is_private = 0
                                 /\ r.agent_id # Null)

StoredUpdatedAt(conversationId) ==
  LET rows == SelectSeq(conversations, LAMBDA r : r.id = conversationId)
  IN  IF rows = << >> THEN -1 ELSE rows[1].updated_at

\* C23: the store offers the timestamp update the turn engine invokes, so that
\* an agent call of a run whose two inserts have succeeded returns, and then
\* the updated_at stored for the conversation equals the updatedAt of the
\* aggregate the call worked on, which equals the timestamp of the two
\* messages just appended.
C23_StoredUpdatedAtFollowsTheTurn ==
  (run.state # "idle" /\ lastOp.op = "generateAgentResponse" /\ lastOp.privateWritten) =>
     LET public == conv.messages[Len(conv.messages)]
         author == CHOOSE a \in 1..Len(conv.agents) : conv.agents[a].id = public.agentId
         thoughts == conv.agents[author].privateThoughts
     IN  /\ "updateConversation" \in DatabaseServiceMethods
         /\ lastOp.ok
         /\ StoredUpdatedAt(conv.id) = run.updatedAt
         /\ run.updatedAt = public.timestamp
         /\ run.updatedAt = thoughts[Len(thoughts)].timestamp


IdsOf(rows) == [k \in 1..Len(rows) |-> rows[k].id]

\* C24: loadConversation returns the public messages of the conversation, and
\* each agent's private thoughts, in the order in which they were appended,
\* which is the order of their insertion into the store, also when messages
\* carry the same timestamp.
C24_LoadKeepsAppendOrder ==
  (lastOp.op = "loadConversation" /\ lastOp.ok) =>
     /\ IdsOf(conv.messages) =
          IdsOf(SelectSeq(messages, LAMBDA r : r.conversation_id = conv.id /\ r.is_private = 0))
     /\ \A a \in 1..Len(conv.agents) :
           IdsOf(conv.agents[a].privateThoughts) =
             IdsOf(SelectSeq(messages,
                     LAMBDA r : r.agent_id = conv.agents[a].id /\ r.is_private = 1))


RECURSIVE Flatten(_)
Flatten(seqs) ==
  IF seqs = << >> THEN << >> ELSE seqs[1] \o Flatten(SubSeq(seqs, 2, Len(seqs)))

\* every message the aggregate holds: the public sequence, then each agent's
\* private thoughts
Transcript == conv.messages \o Flatten([a \in 1..Len(conv.agents) |-> conv.agents[a].privateThoughts])

\* C25: between operations every message of the conversation the caller holds
\* appears exactly once in the aggregate: in the public sequence, and then it
\* is not private, or in the private thoughts of one agent, its author, and
\* then it is private.  Each is a row of the store with the same flag, and a
\* loaded aggregate holds every row the store has for the conversation.
C25_TranscriptIsPartitioned ==
  (conv.id # Null /\ run.state # "running") =>
     /\ \A k \in 1..Len(conv.messages) :
           /\ ~conv.messages[k].isPrivate
           /\ conv.messages[k].conversationId = conv.id
     /\ \A a \in 1..Len(conv.agents) :
           \A k \in 1..Len(conv.agents[a].privateThoughts) :
              LET thought == conv.agents[a].privateThoughts[k]
              IN  /\ thought.isPrivate
                  /\ thought.agentId = conv.agents[a].id
                  /\ thought.conversationId = conv.id
     /\ Cardinality({Transcript[k].id : k \in 1..Len(Transcript)}) = Len(Transcript)
     /\ \A k \in 1..Len(Transcript) :
           \E j \in 1..Len(messages) :
              /\ messages[j].id = Transcript[k].id
              /\ dbMessageToMessage(messages[j]) = Transcript[k]
     /\ (lastOp.op = "loadConversation" /\ lastOp.ok) =>
           Len(Transcript) = Len(RowsOfConversation(messages, conv.id))

\* an aggregate loaded from a store that holds the seed message, an agent's
\* public reply and its private thought
C25_Witness ==
  /\ lastOp.op = "loadConversation"
  /\ lastOp.ok
  /\ Len(conv.agents) = 2
  /\ Len(conv.messages) = 2
  /\ Len(conv.agents[1].privateThoughts) = 1
  /\ Len(Transcript) = 3


\* what a call of generateAgentResponse for the agent at index i that has
\* written its two messages may change, and what it leaves alone
TurnFrame(i) ==
  /\ Len(conv'.messages) = Len(conv.messages) + 1
  /\ IsPrefix(conv.messages, conv'.messages)
  /\ conv'.id = conv.id
  /\ conv'.topic = conv.topic
  /\ conv'.createdAt = conv.createdAt
  /\ Len(conv'.agents) = Len(conv.agents)
  /\ \A a \in 1..Len(conv.agents) :
        /\ conv'.agents[a].id = conv.agents[a].id
        /\ conv'.agents[a].name = conv.agents[a].name
        /\ conv'.agents[a].systemPrompt = conv.agents[a].systemPrompt
        /\ IsPrefix(conv.agents[a].privateThoughts, conv'.agents[a].privateThoughts)
        /\ Len(conv'.agents[a].privateThoughts) =
              Len(conv.agents[a].privateThoughts) + (IF a = i + 1 THEN 1 ELSE 0)
  /\ Len(messages') = Len(messages) + 2
  /\ agents' = agents

C27_CounterCountsIssuedRequests ==
  /\ requestCount = issuedInWindow
  /\ (lastCall.made /\ lastCall.dispatched) => lastCall.countAfter >= 1


\* C28: in every store state the program reaches, every message row names a
\* conversation the store holds, and every message row with an agent names an
\* agent row of that same conversation and carries that agent's name.
C28_MessagesReferToTheirConversation ==
  \A k \in 1..Len(messages) :
     /\ messages[k].conversation_id \in Ids(conversations)
     /\ messages[k].agent_id # Null =>
           \E a \in 1..Len(agents) :
              /\ agents[a].id = messages[k].agent_id
              /\ agents[a].conversation_id = messages[k].conversation_id
              /\ agents[a].name = messages[k].agent_name

\* a store that holds two agents, the seed message, and an agent's public
\* reply and private thought
C28_Witness ==
  /\ Len(messages) >= 3
  /\ Len(agents) = 2
  /\ \E k \in 1..Len(messages) : messages[k].agent_id # Null /\ messages[k].is_private = 1
  /\ \E k \in 1..Len(messages) : messages[k].agent_id # Null /\ messages[k].is_private = 0


\* C29: a runConversation of one turn or more that no store failure has ended
\* has returned, and the aggregate the caller passed in agrees with the one
\* the run worked on and returns: they share the message and agent arrays,
\* and they carry the same updatedAt.
C29_CallerAndReturnedAggregateAgree ==
  (RunEnded /\ ~run.storeFailed /\ run.numTurns >= 1 /\ run.numAgents >= 1) =>
     /\ run.state = "returned"
     /\ conv.updatedAt = run.updatedAt


\* C30: a generateAgentResponse that raises an error leaves the aggregate it
\* was given as it was before the call: nothing is appended to the public
\* messages or to any agent's private thoughts, and updatedAt is unchanged,
\* in the caller's object and in the copy a run works on.
C30_RaisingCallLeavesAggregateAlone ==
  [][ ( /\ lastOp'.op = "generateAgentResponse"
        /\ ~lastOp'.ok
        /\ (calls' = calls + 1 \/ lastOp' # lastOp) ) =>
          /\ conv' = conv
          /\ run.state = "running" => run'.updatedAt = run.updatedAt ]_vars

====
